---- MODULE Spec2Model ----
(***************************************************************************)
(* The Qwixx rules engine of src/qwixx.py: Row / Grid / Dice / Take / Card *)
(* as operators, Game.play / Game.do_round as a state machine whose steps  *)
(* are the points between two calls of the decision interface.             *)
(***************************************************************************)
EXTENDS Integers, Sequences, FiniteSets, TLC

VARIABLES
    cards,         \* Game.cards: player index -> [grid, penalties]
    roller_id,     \* Game.roller_id
    dice,          \* Game.dice: the current roll, a tuple of [color, face]
    pc,            \* position inside play() / do_round()
    idx,           \* loop index of take_white's enumerate(zip(players, cards))
    roller_marks,  \* do_round's local roller_marks (the baseline mark count)
    result,        \* what play() returned
    round0,        \* history: mark counts, penalties and roller at the last roll
    calls,         \* history: the take_turn calls of the round, in order
    io             \* the text-side collaborators (Take text, HumanPlayer input)

vars == <<cards, roller_id, dice, pc, idx, roller_marks, result, round0, calls, io>>

(***************************************************************************)
(* Bounds of the model: the players handed to Game(...) and the die faces  *)
(* a roll may show.                                                        *)
(***************************************************************************)
\* Each player is a Player implementation that only ever marks rows in `plays`.
players == << [plays |-> {0}], [plays |-> {3}] >>

NumPlayers == Len(players)

PlayerIds == 0 .. (NumPlayers - 1)

\* Faces a white die may show (a subset of randrange(1, 7)): their sums are
\* 2, 4, 6, 7, 9 and 12, enough to lock an ascending and a descending row.
WhiteFaces == {1, 3, 6}

\* What the two white dice may show together, up to their order.
WhiteRolls == {w \in WhiteFaces \X WhiteFaces : w[1] <= w[2]}

\* What the four colored dice (R, Y, G, B) may show together.
ColoredRolls == { <<2, 5, 3, 4>> }

\* The faces of one roll, in the order of Dice.COLORS.
Faces == {w \o c : w \in WhiteRolls, c \in ColoredRolls}

(***************************************************************************)
(* Python values of different types never compare equal: a value carries   *)
(* its type.                                                               *)
(***************************************************************************)
PyInt(i) == [type |-> "int", v |-> i]

PyColor(c) == [type |-> "Color", v |-> c]

PyEq(a, b) == a.type = b.type /\ a.v = b.v

PyIn(x, container) == \E y \in container : PyEq(x, y)

(***************************************************************************)
(* Row                                                                     *)
(***************************************************************************)
LOCK_REQUIRES == 5

Range(a, b) == [i \in 1 .. (b - a + 1) |-> a + i - 1]

RangeDown(a, b) == [i \in 1 .. (a - b + 1) |-> a - i + 1]

Last(s) == s[Len(s)]

\* Mutant: the first spot taken for the final one (spots[0] for spots[-1]).
FinalFirst(row) == row.spots[1]

Final(row) == Last(row.spots)

InSeq(x, s) == \E i \in 1 .. Len(s) : s[i] = x

\* tuple.index: the first position holding x.
IndexOf(s, x) == CHOOSE i \in 1 .. Len(s) : s[i] = x /\ \A j \in 1 .. (i - 1) : s[j] # x

RowLocked(row) == row.marks # <<>> /\ Last(row.marks) = Final(row)

\* Mutant: the whole row stays open (the suffix after the last mark forgotten).
OpenSpotsAll(row) == row.spots

OpenSpots(row) ==
    IF row.marks = <<>>
    THEN row.spots
    ELSE LET last_marked_i == IndexOf(row.spots, Last(row.marks))
         IN  SubSeq(row.spots, last_marked_i + 1, Len(row.spots))

\* Mutant: an off-by-one in the lock requirement.
CanLockOneShort(row) == Len(row.marks) >= LOCK_REQUIRES - 1

CanLock(row) == Len(row.marks) >= LOCK_REQUIRES

ValidSpot(row, spot) ==
    /\ InSeq(spot, OpenSpots(row))
    /\ ~RowLocked(row)
    /\ (spot # Final(row) \/ CanLock(row))

(***************************************************************************)
(* Grid                                                                    *)
(***************************************************************************)
RowIds == 0 .. 3

SPOTS == [r \in RowIds |-> IF r \in {0, 1} THEN Range(2, 12) ELSE RangeDown(12, 2)]

GridColors == [r \in RowIds |-> CASE r = 0 -> "R" [] r = 1 -> "Y" [] r = 2 -> "G" [] r = 3 -> "B"]

RECURSIVE Accumulate(_)
Accumulate(n) == IF n = 0 THEN 0 ELSE n + Accumulate(n - 1)

SCORES == [k \in 0 .. 12 |-> Accumulate(k)]

NewGrid == [r \in RowIds |-> [spots |-> SPOTS[r], marks |-> <<>>]]

Take(row_id, spot) == [row_id |-> row_id, spot |-> spot]

ValidTakes(grid, takes) == SelectSeq(takes, LAMBDA take : ValidSpot(grid[take.row_id], take.spot))

RECURSIVE SumLens(_, _)
SumLens(grid, r) == IF r < 0 THEN 0 ELSE Len(grid[r].marks) + SumLens(grid, r - 1)

MarkCount(grid) == SumLens(grid, 3)

(***************************************************************************)
(* Die / Dice                                                              *)
(***************************************************************************)
NON_GRID_COLORS == <<"W", "W">>

DiceColors == NON_GRID_COLORS \o <<"R", "Y", "G", "B">>

Die(color, face) == [color |-> color, face |-> face]

\* Dice.roll: one die per color c of COLORS with `c not in locked`; `faces`
\* are the values randrange gives, in the order of COLORS.
Roll(locked, faces) ==
    LET keep(i) == ~PyIn(PyColor(DiceColors[i]), locked)
        all == [i \in 1 .. Len(DiceColors) |-> Die(DiceColors[i], faces[i])]
        kept == SelectSeq([i \in 1 .. Len(DiceColors) |-> i], keep)
    IN  [k \in 1 .. Len(kept) |-> all[kept[k]]]

RECURSIVE SumFaces(_)
SumFaces(ds) == IF ds = <<>> THEN 0 ELSE ds[1].face + SumFaces(Tail(ds))

\* self[:k] for an integer k.
Prefix(s, k) == SubSeq(s, 1, IF k < Len(s) THEN k ELSE Len(s))

\* Mutant: the neutral sum taken from the first die alone.
TableTakesFirstDie(d) == [i \in 1 .. 4 |-> Take(i - 1, d[1].face)]

TableTakes(d) ==
    LET total == SumFaces(Prefix(d, Len(NON_GRID_COLORS)))
    IN  [i \in 1 .. 4 |-> Take(i - 1, total)]

\* self[:n] / self[n:]: a slice index that is no integer raises TypeError.
SliceIndexOk(n) == n.type = "int"

\* Dice.roller_takes, as the generator behaves when it is first advanced:
\* n is the tuple NON_GRID_COLORS; color_map is keyed by Color and looked up
\* with a Die.
RollerTakes(d) ==
    LET n == [type |-> "tuple", v |-> NON_GRID_COLORS]
    IN  IF ~SliceIndexOk(n)
        THEN [raised |-> "TypeError", takes |-> <<>>]
        ELSE IF Prefix(d, n.v) # <<>> /\ Len(d) > n.v
             THEN [raised |-> "KeyError", takes |-> <<>>]
             ELSE [raised |-> "", takes |-> <<>>]

(***************************************************************************)
(* Card                                                                    *)
(***************************************************************************)
PENALTY_LIMIT == 4

PENALTY_POINTS == 5

NewCard == [grid |-> NewGrid, penalties |-> 0]

\* Mutant: the lock is not rewarded with the extra index.
RowScoreNoBonus(row) == SCORES[Len(row.marks)]

RowScore(row) == SCORES[Len(row.marks) + (IF RowLocked(row) THEN 1 ELSE 0)]

CardScore(card) ==
    RowScore(card.grid[0]) + RowScore(card.grid[1]) + RowScore(card.grid[2])
      + RowScore(card.grid[3]) - card.penalties * PENALTY_POINTS

LockedRowIds(card) == {i \in RowIds : RowLocked(card.grid[i])}

\* Card.valid_moves without the leading None (the pass).
ValidMoves(card, takes) == ValidTakes(card.grid, takes)

\* Mutant: the spot is appended twice.
ApplyTakeTwice(card, take) ==
    [card EXCEPT !.grid[take.row_id].marks = Append(Append(@, take.spot), take.spot)]

ApplyTake(card, take) ==
    [card EXCEPT !.grid[take.row_id].marks = Append(@, take.spot)]

(***************************************************************************)
(* Game                                                                    *)
(***************************************************************************)
GameLocked == UNION {LockedRowIds(cards[p]) : p \in PlayerIds}

MaxPenalties == CHOOSE m \in {cards[p].penalties : p \in PlayerIds} :
                    \A p \in PlayerIds : cards[p].penalties <= m

\* Mutant: the game goes on with two colors locked.
IsOverThreeLocks == Cardinality(GameLocked) > 2 \/ MaxPenalties >= PENALTY_LIMIT

\* Mutant: the penalty limit may be exceeded by one.
IsOverPastLimit == Cardinality(GameLocked) > 1 \/ MaxPenalties > PENALTY_LIMIT

IsOver == Cardinality(GameLocked) > 1 \/ MaxPenalties >= PENALTY_LIMIT

Scores == [i \in 1 .. NumPlayers |-> CardScore(cards[i - 1])]

\* The state at a roll; `started` counts the rounds started, modulo the number
\* of players.
Snapshot(started) ==
    [counts |-> [p \in PlayerIds |-> MarkCount(cards[p].grid)],
     penalties |-> [p \in PlayerIds |-> cards[p].penalties],
     roller |-> roller_id,
     started |-> started]

\* The game takes no part in text input.
Idle == [pc |-> "idle"]

\* Game.turn, line 234: the arguments of player.take_turn for player p.
TurnCall(p, phase, moves) ==
    [player |-> p, turns_to_roller |-> roller_id, phase |-> phase, moves |-> moves]

\* Game(players): fresh cards, roller 0, the class-level default roll.
GameInit ==
    /\ cards = [p \in PlayerIds |-> NewCard]
    /\ roller_id = 0
    /\ \E faces \in Faces : dice = Roll({}, faces)
    /\ pc = "round"
    /\ idx = 0
    /\ roller_marks = 0
    /\ result = <<>>
    /\ round0 = Snapshot(0)
    /\ calls = <<>>

Init == GameInit /\ io = Idle

\* do_round, lines 248-249: roll with the locked set, record the baseline.
StartRound ==
    /\ pc = "round"
    /\ \E faces \in Faces : dice' = Roll({PyInt(i) : i \in GameLocked}, faces)
    /\ roller_marks' = MarkCount(cards[roller_id].grid)
    /\ round0' = Snapshot((round0.started + 1) % NumPlayers)
    /\ calls' = <<>>
    /\ idx' = 0
    /\ pc' = "white"
    /\ UNCHANGED <<cards, roller_id, result, io>>

\* The moves a player may return: 0 for None (always the first move offered), or
\* the position in `moves` of a legal take in a row it plays.
Choices(p, moves) ==
    {0} \cup {i \in 1 .. Len(moves) : moves[i].row_id \in players[p + 1].plays}

\* Mutant: the move is applied to the roller's card, whoever made it.
TurnOnRollerCard(p, moves, choice) ==
    IF choice = 0
    THEN cards
    ELSE [cards EXCEPT ![roller_id] = ApplyTake(@, moves[choice])]

\* Game.turn for the move the player returned.
Turn(p, moves, choice) ==
    IF choice = 0
    THEN cards
    ELSE [cards EXCEPT ![p] = ApplyTake(@, moves[choice])]

\* take_white: one pass of its loop, the turn of player idx.
TakeWhite ==
    /\ pc = "white"
    /\ LET moves == ValidMoves(cards[idx], TableTakes(dice))
       IN  /\ \E choice \in Choices(idx, moves) : cards' = Turn(idx, moves, choice)
           /\ calls' = Append(calls, TurnCall(idx, "white", moves))
    /\ idx' = idx + 1
    /\ pc' = IF idx + 1 = NumPlayers THEN "checkA" ELSE "white"
    /\ UNCHANGED <<roller_id, dice, roller_marks, result, round0, io>>

\* do_round, lines 251-252; a return of do_round ends the life of its locals.
CheckA ==
    /\ pc = "checkA"
    /\ pc' = IF IsOver THEN "over" ELSE "colors"
    /\ idx' = 0
    /\ roller_marks' = IF IsOver THEN 0 ELSE roller_marks
    /\ UNCHANGED <<cards, roller_id, dice, result, round0, calls, io>>

\* What the roller's take_turn can come to in take_colors: the move generator
\* yields None first; advancing it further runs roller_takes.
ColorOutcomes ==
    LET rt == RollerTakes(dice)
        moves == ValidMoves(cards[roller_id], rt.takes)
    IN  {[raised |-> "", choice |-> 0]} \cup
        (IF rt.raised # ""
         THEN {[raised |-> rt.raised, choice |-> 0]}
         ELSE {[raised |-> "", choice |-> c] : c \in Choices(roller_id, moves)})

\* take_colors: the roller's turn on the roller candidates; an exception leaves
\* play().
TakeColors ==
    /\ pc = "colors"
    /\ \E o \in ColorOutcomes :
          /\ pc' = IF o.raised # "" THEN "raised" ELSE "penalty"
          /\ cards' = IF o.raised # ""
                      THEN cards
                      ELSE Turn(roller_id,
                                ValidMoves(cards[roller_id], RollerTakes(dice).takes),
                                o.choice)
    /\ calls' = Append(calls, TurnCall(roller_id, "colors",
                                       ValidMoves(cards[roller_id], RollerTakes(dice).takes)))
    /\ UNCHANGED <<roller_id, dice, idx, roller_marks, result, round0, io>>

\* Mutant: the roller is penalised whether or not a mark was placed.
PenaltyRuleAlways ==
    /\ pc = "penalty"
    /\ cards' = [cards EXCEPT ![roller_id].penalties = @ + 1]
    /\ pc' = "advance"
    /\ UNCHANGED <<roller_id, dice, idx, roller_marks, result, round0, calls, io>>

\* do_round, lines 254-255.
PenaltyRule ==
    /\ pc = "penalty"
    /\ cards' = IF roller_marks = MarkCount(cards[roller_id].grid)
                THEN [cards EXCEPT ![roller_id].penalties = @ + 1]
                ELSE cards
    /\ pc' = "advance"
    /\ UNCHANGED <<roller_id, dice, idx, roller_marks, result, round0, calls, io>>

\* Mutant: the roller pointer is not advanced.
AdvanceRollerStays ==
    /\ pc = "advance"
    /\ roller_id' = roller_id
    /\ pc' = "checkB"
    /\ UNCHANGED <<cards, dice, idx, roller_marks, result, round0, calls, io>>

\* do_round, line 256.
AdvanceRoller ==
    /\ pc = "advance"
    /\ roller_id' = (roller_id + 1) % NumPlayers
    /\ pc' = "checkB"
    /\ UNCHANGED <<cards, dice, idx, roller_marks, result, round0, calls, io>>

\* do_round, line 257, and play's loop test.
CheckB ==
    /\ pc = "checkB"
    /\ pc' = IF IsOver THEN "over" ELSE "round"
    /\ roller_marks' = 0
    /\ round0' = IF IsOver THEN round0 ELSE Snapshot(round0.started)
    /\ calls' = IF IsOver THEN calls ELSE <<>>
    /\ UNCHANGED <<cards, roller_id, dice, idx, result, io>>

\* play, line 263.
Return ==
    /\ pc = "over"
    /\ result' = Scores
    /\ pc' = "returned"
    /\ UNCHANGED <<cards, roller_id, dice, idx, roller_marks, round0, calls, io>>

Next ==
    \/ StartRound
    \/ TakeWhite
    \/ CheckA
    \/ TakeColors
    \/ PenaltyRule
    \/ AdvanceRoller
    \/ CheckB
    \/ Return

Spec == Init /\ [][Next]_vars

(***************************************************************************)
(* Take text: a string is the sequence of its characters.                  *)
(***************************************************************************)
game == <<cards, roller_id, dice, pc, idx, roller_marks, result, round0, calls>>

\* The strings entered besides the encodings of takes: pass in both cases,
\* ill-formed ones, and a well-formed take no roll makes legal.
Texts ==
    { <<"p">>, <<"P">>, <<>>, <<"R">>, <<"X", "7">>, <<"r", "7">>,
      <<"R", "x">>, <<"R", "1", "x">>, <<"W", "8">>, <<"R", "1", "2">> }

\* The values of Color.
ColorValues == <<"R", "Y", "G", "B", "W">>

DigitChars == <<"0", "1", "2", "3", "4", "5", "6", "7", "8", "9">>

\* str(n) for n >= 0.
RECURSIVE IntStr(_)
IntStr(n) ==
    IF n < 10
    THEN <<DigitChars[n + 1]>>
    ELSE IntStr(n \div 10) \o <<DigitChars[(n % 10) + 1]>>

\* int(t) succeeds on a non-empty string of decimal digits.
IntOk(t) == t # <<>> /\ \A i \in 1 .. Len(t) : InSeq(t[i], DigitChars)

RECURSIVE IntOf(_)
IntOf(t) ==
    IF t = <<>>
    THEN 0
    ELSE IntOf(SubSeq(t, 1, Len(t) - 1)) * 10 + (IndexOf(DigitChars, Last(t)) - 1)

\* A move as a Python value: None, a Take (its row_id carrying its type), or
\* the object() that HumanPlayer starts from.
PyNone == [kind |-> "None", row_id |-> PyInt(0), spot |-> 0]

PyObject == [kind |-> "object", row_id |-> PyInt(0), spot |-> 0]

PyTake(row_id, spot) == [kind |-> "Take", row_id |-> row_id, spot |-> spot]

\* == on moves: the dataclass compares (row_id, spot) field by field.
MoveEq(a, b) ==
    /\ a.kind = b.kind
    /\ a.kind = "Take" => PyEq(a.row_id, b.row_id) /\ a.spot = b.spot

\* Take.__str__ of a take whose row_id is a row index.
TakeStr(take) == <<GridColors[take.row_id.v]>> \o IntStr(take.spot)

\* Take.from_string: Color(s[0]) and int(s[1:]), every failure turned into
\* ValueError.
FromString(s) ==
    IF s = <<>> \/ ~InSeq(s[1], ColorValues) \/ ~IntOk(Tail(s))
    THEN [raised |-> "ValueError", take |-> PyNone]
    ELSE [raised |-> "none", take |-> PyTake(PyColor(s[1]), IntOf(Tail(s)))]

\* A take of the game is encoded.
TakeEncode ==
    /\ io.pc = "idle"
    /\ \E r \in RowIds, spot \in 2 .. 12 :
          LET take == PyTake(PyInt(r), spot)
          IN  io' = [pc |-> "text", encoded |-> TRUE, take |-> take,
                     text |-> TakeStr(take), out |-> FromString(<<>>)]
    /\ UNCHANGED game

\* A string comes from elsewhere.
TakeText ==
    /\ io.pc = "idle"
    /\ \E s \in Texts :
          io' = [pc |-> "text", encoded |-> FALSE, take |-> PyNone,
                 text |-> s, out |-> FromString(<<>>)]
    /\ UNCHANGED game

\* Take.from_string(text).
TakeParse ==
    /\ io.pc = "text"
    /\ io' = [io EXCEPT !.pc = "parsed", !.out = FromString(io.text)]
    /\ UNCHANGED game

NextTake ==
    \/ TakeEncode
    \/ TakeText
    \/ TakeParse

SpecTake == Init /\ [][NextTake]_vars

(***************************************************************************)
(* Game.turn with a player that is free to return any Take.                *)
(***************************************************************************)
\* The turns of one player are followed.
ApplyStart ==
    /\ io.pc = "idle"
    /\ \E p \in PlayerIds : io' = [pc |-> "turns", player |-> p]
    /\ UNCHANGED game

\* A turn in which the player returns a take that is valid on its card.
ApplyLegal ==
    /\ io.pc = "turns"
    /\ \E r \in players[io.player + 1].plays, spot \in 2 .. 12 :
          /\ ValidSpot(cards[io.player].grid[r], spot)
          /\ cards' = Turn(io.player, <<Take(r, spot)>>, 1)
    /\ UNCHANGED <<roller_id, dice, pc, idx, roller_marks, result, round0, calls, io>>

\* A turn in which the player returns any take at all: Game.turn hands it to
\* Card.apply_take.
ApplyReturned ==
    /\ io.pc = "turns"
    /\ \E r \in players[io.player + 1].plays, spot \in 2 .. 12 :
          /\ cards' = Turn(io.player, <<Take(r, spot)>>, 1)
          /\ io' = [pc |-> "applied", player |-> io.player, take |-> Take(r, spot)]
    /\ UNCHANGED <<roller_id, dice, pc, idx, roller_marks, result, round0, calls>>

NextApply ==
    \/ ApplyStart
    \/ ApplyLegal
    \/ ApplyReturned

SpecApply == Init /\ [][NextApply]_vars

(***************************************************************************)
(* HumanPlayer.take_turn on the first neutral roll of a game.              *)
(***************************************************************************)
\* What `moves` may be: the generator Card.valid_moves returns, as Game.turn
\* passes it, or a list of the same values.
Iterables == {"generator", "list"}

\* Card.valid_moves as Python values: None, then the valid takes.
PyValidMoves(card, takes) ==
    LET valid == ValidMoves(card, takes)
    IN  <<PyNone>> \o [i \in 1 .. Len(valid) |-> PyTake(PyInt(valid[i].row_id), valid[i].spot)]

\* str.lower on the characters entered.
Lower(s) ==
    [i \in 1 .. Len(s) |->
        CASE s[i] = "P" -> "p"
          [] s[i] = "R" -> "r"
          [] s[i] = "Y" -> "y"
          [] s[i] = "G" -> "g"
          [] s[i] = "B" -> "b"
          [] s[i] = "W" -> "w"
          [] s[i] = "X" -> "x"
          [] OTHER -> s[i]]

\* The positions of `rest` holding a value equal to move.
Hits(move, rest) == {i \in 1 .. Len(rest) : MoveEq(move, rest[i])}

\* What the user may type: the strings of Texts and the text of each take
\* offered.
Entries(moves) == Texts \cup {TakeStr(moves[i]) : i \in 2 .. Len(moves)}

\* Game.turn calls take_turn; lines 189-194, move = object().
HumanCall ==
    /\ io.pc = "idle"
    /\ \E kind \in Iterables :
          LET moves == PyValidMoves(cards[0], TableTakes(dice))
          IN  io' = [pc |-> "test", kind |-> kind, moves |-> moves, rest |-> moves,
                     move |-> PyObject, s |-> <<>>, entered |-> FALSE]
    /\ UNCHANGED game

\* while move not in moves: a generator is consumed up to the first equal
\* value, or to its end.
HumanTest ==
    /\ io.pc = "test"
    /\ LET hits == Hits(io.move, io.rest)
           first == CHOOSE i \in hits : \A j \in hits : i <= j
       IN  io' = [io EXCEPT
                    !.pc = IF hits # {} THEN "returned" ELSE "input",
                    !.rest = IF io.kind = "list"
                             THEN @
                             ELSE IF hits # {}
                                  THEN SubSeq(@, first + 1, Len(@))
                                  ELSE <<>>]
    /\ UNCHANGED game

\* Lines 196-201: one line of input becomes the next value of move.
HumanInput ==
    /\ io.pc = "input"
    /\ \E s \in Entries(io.moves) :
          LET parsed == FromString(s)
          IN  io' = [io EXCEPT
                       !.pc = "test",
                       !.s = s,
                       !.entered = TRUE,
                       !.move = IF Lower(s) = <<"p">>
                                THEN PyNone
                                ELSE IF parsed.raised = "ValueError"
                                     THEN @
                                     ELSE parsed.take]
    /\ UNCHANGED game

NextHuman ==
    \/ HumanCall
    \/ HumanTest
    \/ HumanInput

SpecHuman == Init /\ [][NextHuman]_vars

(***************************************************************************)
(* Properties                                                              *)
(***************************************************************************)
\* The final spot and the direction of each row as the rules give them.
FinalSpot(r) == IF r \in {0, 1} THEN 12 ELSE 2

Ascending(r) == r \in {0, 1}

RowOf(p, r) == cards[p].grid[r]

\* C1: on every card, the marks of every row are values of 2..12 that strictly
\* increase on Red and Yellow and strictly decrease on Green and Blue, so
\* they follow the row's spots and no value is marked twice.
C1_MarksFollowSpots ==
    \A p \in PlayerIds, r \in RowIds :
        LET m == RowOf(p, r).marks
        IN  /\ \A i \in 1 .. Len(m) : m[i] \in 2 .. 12
            /\ \A i \in 1 .. Len(m), j \in 1 .. Len(m) :
                  i < j => IF Ascending(r) THEN m[i] < m[j] ELSE m[i] > m[j]

C1_Witness ==
    /\ Len(RowOf(0, 0).marks) >= 3
    /\ Len(RowOf(1, 3).marks) >= 3

\* C2: the final spot of a row is valid only with at least 5 marks on the
\* row, so a locked row holds at least 6 marks; on Red with marks [4, 7] the
\* spot 12 is not valid and the spot 8 is.
C2_LockNeedsFive ==
    \A p \in PlayerIds, r \in RowIds :
        LET row == RowOf(p, r)
        IN  /\ ValidSpot(row, FinalSpot(r)) => Len(row.marks) >= 5
            /\ (row.marks # <<>> /\ Last(row.marks) = FinalSpot(r)) => Len(row.marks) >= 6
            /\ (r = 0 /\ row.marks = <<4, 7>>) => (~ValidSpot(row, 12) /\ ValidSpot(row, 8))

C2_Witness ==
    \E p \in PlayerIds, r \in RowIds :
        LET row == RowOf(p, r)
        IN  Len(row.marks) = 6 /\ Last(row.marks) = FinalSpot(r)

\* C3: a row is locked exactly when it has marks and the last one is its final
\* spot; a locked row accepts no value, and no step changes its marks.
C3_LockedRowIsClosed ==
    [][\A p \in PlayerIds, r \in RowIds :
          LET row == RowOf(p, r)
              closed == row.marks # <<>> /\ Last(row.marks) = FinalSpot(r)
          IN  /\ RowLocked(row) <=> closed
              /\ closed => /\ \A v \in 0 .. 14 : ~ValidSpot(row, v)
                           /\ cards'[p].grid[r].marks = row.marks]_vars

\* A row locked before the roll, after its player's turn of the round.
C3_Witness ==
    \E p \in PlayerIds, r \in RowIds :
        /\ RowLocked(RowOf(p, r))
        /\ pc \in {"white", "checkA"}
        /\ idx > p
        /\ round0.counts[p] = MarkCount(cards[p].grid)

\* Marks the roller of the last started round gained since its roll.
RollerGained == MarkCount(cards[round0.roller].grid) - round0.counts[round0.roller]

PenaltiesAsAtRoll == \A p \in PlayerIds : cards[p].penalties = round0.penalties[p]

PenaltyRuleApplied ==
    \A p \in PlayerIds :
        cards[p].penalties =
            round0.penalties[p] + (IF p = round0.roller /\ RollerGained = 0 THEN 1 ELSE 0)

\* C4 as stated: after every round, one ended by termination check A included,
\* the roller's penalties are 1 higher if its card gained no mark and unchanged
\* otherwise, and no other card's penalties changed.
C4_EveryRoundPenalises == pc \in {"checkB", "over", "returned"} => PenaltyRuleApplied

\* C4, amended: a round that goes on past termination check A to the penalty
\* rule raises the roller's penalties by exactly 1 if its card gained no mark in
\* either phase and leaves them unchanged otherwise, and changes no other
\* card's penalties; until the penalty rule, and in a round that termination
\* check A ends, no card's penalties change.
C4_PenaltyRule ==
    /\ pc \in {"white", "checkA", "colors", "penalty", "raised"} => PenaltiesAsAtRoll
    /\ pc \in {"advance", "checkB"} => PenaltyRuleApplied
    /\ pc \in {"over", "returned"} => (PenaltiesAsAtRoll \/ PenaltyRuleApplied)

C4_Witness ==
    /\ pc = "checkB"
    /\ RollerGained = 0
    /\ cards[round0.roller].penalties = round0.penalties[round0.roller] + 1

\* The scoring colors locked on at least one card.
LockedColors ==
    {GridColors[r] : r \in {q \in RowIds : \E p \in PlayerIds :
        RowOf(p, q).marks # <<>> /\ Last(RowOf(p, q).marks) = FinalSpot(q)}}

\* C5: with two or more distinct colors locked across all cards, the game is
\* in the rest of the neutral phase in which the second lock fell, at the
\* termination check that follows it, or over: no colored phase, penalty rule,
\* roller advance or further round happens.
C5_TwoLockedColorsEndGame ==
    Cardinality(LockedColors) > 1 => pc \in {"white", "checkA", "over", "returned"}

C5_Witness ==
    /\ pc = "over"
    /\ "R" \in LockedColors
    /\ "B" \in LockedColors
    /\ RowLocked(RowOf(0, 0))
    /\ RowLocked(RowOf(1, 3))
    /\ \E p \in PlayerIds, r \in RowIds : ~RowLocked(RowOf(p, r))

\* C6: with a card at 4 penalties, the game is at the roller advance or the
\* termination check that follow the penalty rule, or over; no further round
\* is started, also with no row locked.
C6_FourPenaltiesEndGame ==
    (\E p \in PlayerIds : cards[p].penalties >= 4)
        => pc \in {"advance", "checkB", "over", "returned"}

C6_Witness ==
    /\ pc = "over"
    /\ \E p \in PlayerIds : cards[p].penalties = 4
    /\ LockedColors = {}

\* C7: play() never stops before it has returned the list of every card's
\* score in player order: a state from which no step is possible is the
\* state after the return.
C7_PlayReturnsScores ==
    \/ pc = "returned" /\ result = [i \in 1 .. NumPlayers |-> CardScore(cards[i - 1])]
    \/ pc # "returned" /\ ENABLED Next

\* The colors of the dice of a roll, in order.
RollColors == [i \in 1 .. Len(dice) |-> dice[i].color]

\* The scoring colors, in grid order, that are not locked on any card.
UnlockedColors == SelectSeq(<<"R", "Y", "G", "B">>, LAMBDA c : c \notin LockedColors)

JustRolled == pc = "white" /\ idx = 0

\* C8: the roll that starts a round holds the two neutral dice and one die for
\* each scoring color that is locked on no card, and no die for a locked color.
C8_RollOmitsLockedColors == JustRolled => RollColors = <<"W", "W">> \o UnlockedColors

\* C9: in a round that starts with a color locked on some card, neither
\* candidate set holds a Take for that color and no player is offered one.
C9_NoTakeForLockedColor ==
    JustRolled =>
        /\ \A i \in 1 .. Len(TableTakes(dice)) :
              GridColors[TableTakes(dice)[i].row_id] \notin LockedColors
        /\ \A i \in 1 .. Len(RollerTakes(dice).takes) :
              GridColors[RollerTakes(dice).takes[i].row_id] \notin LockedColors
        /\ \A p \in PlayerIds :
              LET moves == ValidMoves(cards[p], TableTakes(dice))
              IN  \A i \in 1 .. Len(moves) : GridColors[moves[i].row_id] \notin LockedColors

\* C10: when the roller is asked for its colored-phase move, roller_takes gives
\* one Take per colored die of the roll, in the die's own row, whose spot is
\* that die's face plus the face of a neutral die.
C10_RollerTakesPerColoredDie ==
    pc = "colors" =>
        LET rt == RollerTakes(dice)
            colored == SelectSeq(dice, LAMBDA d : d.color # "W")
            neutral == SelectSeq(dice, LAMBDA d : d.color = "W")
        IN  /\ rt.raised = ""
            /\ Len(rt.takes) = Len(colored)
            /\ \A i \in 1 .. Len(colored) :
                  /\ GridColors[rt.takes[i].row_id] = colored[i].color
                  /\ \E k \in 1 .. Len(neutral) :
                        rt.takes[i].spot = colored[i].face + neutral[k].face

\* The sum of the faces of the neutral dice of a roll.
NeutralSum(d) == SumFaces(SelectSeq(d, LAMBDA x : x.color = "W"))

\* The legal takes of a card from the neutral candidates: one candidate per
\* scoring color, its spot the neutral sum, kept where the card's row accepts it.
NeutralLegal(card, d) ==
    SelectSeq([i \in 1 .. 4 |-> Take(i - 1, NeutralSum(d))],
              LAMBDA t : ValidSpot(card.grid[t.row_id], t.spot))

\* The termination predicate as the rules state it.
TerminationHolds ==
    Cardinality(LockedColors) > 1 \/ \E p \in PlayerIds : cards[p].penalties >= 4

\* C11: in a round the k-th call of the decision interface (k from 0) is for
\* player k, with the legal moves of that player's own card from the neutral
\* candidates; termination check A comes after n such calls; only when it is
\* false one more call follows, for the roller alone, in the colored phase;
\* no other step calls the decision interface.
C11_CallOrder ==
    [][/\ pc = "white" =>
            /\ Len(calls) < NumPlayers
            /\ Len(calls') = Len(calls) + 1
            /\ SubSeq(calls', 1, Len(calls)) = calls
            /\ Last(calls').player = Len(calls)
            /\ Last(calls').phase = "white"
            /\ Last(calls').moves = NeutralLegal(cards[Len(calls)], dice)
       /\ pc = "checkA" => Len(calls) = NumPlayers /\ calls' = calls
       /\ pc = "colors" =>
            /\ ~TerminationHolds
            /\ Len(calls) = NumPlayers
            /\ Len(calls') = NumPlayers + 1
            /\ SubSeq(calls', 1, NumPlayers) = calls
            /\ Last(calls').player = roller_id
            /\ Last(calls').phase = "colors"
       /\ pc \in {"penalty", "advance", "checkB"} => Len(calls) = NumPlayers + 1
       /\ pc \in {"penalty", "advance", "over", "returned", "raised"} => calls' = calls
       /\ pc = "round" => calls' = <<>>]_vars

C11_Witness ==
    /\ pc = "penalty"
    /\ Len(calls) = NumPlayers + 1
    /\ calls[1].moves # <<>>
    /\ calls[2].moves # <<>>
    /\ roller_id = 1

Triangular(k) == (k * (k + 1)) \div 2

\* The index of a row's score: its marks, plus 1 if its last mark is its final spot.
ScoreIndex(p, r) ==
    LET m == RowOf(p, r).marks
    IN  Len(m) + (IF m # <<>> /\ Last(m) = FinalSpot(r) THEN 1 ELSE 0)

\* C12: every row's score is the triangular number at index marks (+1 if
\* locked), the index is at most 12, a card's score is the sum of its four row
\* scores minus 5 per penalty, and play() returns these; an unmarked row scores
\* 0 and Red with marks [4,7,8,9,10,12] scores 28.
C12_Scores ==
    /\ \A p \in PlayerIds, r \in RowIds :
          /\ ScoreIndex(p, r) <= 12
          /\ RowScore(RowOf(p, r)) = Triangular(ScoreIndex(p, r))
    /\ \A p \in PlayerIds :
          CardScore(cards[p]) =
              Triangular(ScoreIndex(p, 0)) + Triangular(ScoreIndex(p, 1))
                + Triangular(ScoreIndex(p, 2)) + Triangular(ScoreIndex(p, 3))
                - 5 * cards[p].penalties
    /\ pc = "returned" =>
          \A p \in PlayerIds : result[p + 1] = CardScore(cards[p])
    /\ RowScore([spots |-> SPOTS[0], marks |-> <<>>]) = 0
    /\ RowScore([spots |-> SPOTS[0], marks |-> <<4, 7, 8, 9, 10, 12>>]) = 28

C12_Witness ==
    /\ pc = "returned"
    /\ \E p \in PlayerIds :
          /\ ScoreIndex(p, 0) = 7
          /\ cards[p].penalties > 0
          /\ result[p + 1] = 28 - 5 * cards[p].penalties

\* C13: every card's penalties lie in 0..4 and no step lowers them.
C13_PenaltiesBounded ==
    [][\A p \in PlayerIds :
          /\ cards[p].penalties \in 0 .. 4
          /\ cards'[p].penalties \in 0 .. 4
          /\ cards'[p].penalties >= cards[p].penalties]_vars

C13_Witness ==
    /\ pc = "returned"
    /\ \E p \in PlayerIds : cards[p].penalties = 4
    /\ \E p \in PlayerIds : cards[p].penalties \in 1 .. 3

\* C14: in every call of the decision interface turns_to_roller is the number
\* of turns until the acting player is the roller: 0 exactly for the roller.
C14_TurnsToRoller ==
    \A i \in 1 .. Len(calls) :
        /\ calls[i].turns_to_roller = (calls[i].player - round0.roller) % NumPlayers
        /\ calls[i].turns_to_roller = 0 <=> calls[i].player = round0.roller

\* The number of marks on a card.
MarksOn(card) ==
    Len(card.grid[0].marks) + Len(card.grid[1].marks)
      + Len(card.grid[2].marks) + Len(card.grid[3].marks)

\* Card `after` is card `before` with one value appended to one row.
OneMarkAdded(before, after) ==
    /\ after.penalties = before.penalties
    /\ \E r \in RowIds :
          /\ \E v \in 2 .. 12 : after.grid[r].marks = Append(before.grid[r].marks, v)
          /\ \A q \in RowIds \ {r} : after.grid[q] = before.grid[q]
          /\ after.grid[r].spots = before.grid[r].spots

\* C18: a decision step (the k-th neutral turn, of player k, or the roller's
\* colored turn) leaves every other player's card as it was, and leaves the
\* acting player's card as it was (a pass) or with exactly one value appended
\* to exactly one row.
C18_OwnCardOnly ==
    [][(pc \in {"white", "colors"}) =>
          (LET actor == IF pc = "white" THEN Len(calls) ELSE roller_id
           IN  /\ \A q \in PlayerIds \ {actor} : cards'[q] = cards[q]
               /\ \/ cards'[actor] = cards[actor]
                  \/ OneMarkAdded(cards[actor], cards'[actor]))]_vars

\* Player 1 has just marked its own card after player 0 passed.
C18_Witness ==
    /\ pc = "checkA"
    /\ MarksOn(cards[1]) = round0.counts[1] + 1
    /\ MarksOn(cards[0]) = round0.counts[0]

\* C19: roller_id is a player index; only the roller-advance step changes it,
\* to (roller_id + 1) mod n; it starts at 0 and the round started as the k-th
\* (k from 0, counted modulo n) has roller k mod n, which stays the roller
\* until the advance and after a round that check A ends.
C19_RollerRotation ==
    [][/\ roller_id \in PlayerIds
       /\ roller_id' \in PlayerIds
       /\ pc = "advance" => roller_id' = (roller_id + 1) % NumPlayers
       /\ pc # "advance" => roller_id' = roller_id
       /\ pc = "round" => roller_id = round0.started
       /\ pc \in {"white", "checkA", "colors", "penalty", "advance", "raised"} =>
             /\ roller_id = round0.roller
             /\ roller_id = (round0.started + NumPlayers - 1) % NumPlayers
       /\ (pc = "checkA" /\ pc' = "over") => roller_id' = round0.roller]_vars

\* The pointer has wrapped around to player 0.
C19_Witness ==
    /\ pc = "checkB"
    /\ round0.roller = NumPlayers - 1
    /\ roller_id = 0

\* Marks a card gained since the last roll.
Gain(p) == MarksOn(cards[p]) - round0.counts[p]

GainWithinRound ==
    \A p \in PlayerIds :
        /\ Gain(p) >= 0
        /\ Gain(p) <= (IF p = round0.roller THEN 2 ELSE 1)
        /\ pc \in {"white", "checkA", "colors"} => Gain(p) <= 1

\* C20: within a round the roller's card gains at most two marks, at most one
\* of them in the neutral phase, every other card at most one, and no step
\* lowers a card's mark count.
C20_MarksPerRound ==
    [][/\ GainWithinRound
       /\ GainWithinRound'
       /\ \A p \in PlayerIds : MarksOn(cards'[p]) >= MarksOn(cards[p])]_vars

C20_Witness ==
    /\ pc = "penalty"
    /\ \A p \in PlayerIds : Gain(p) = 1

\* The string has an unknown color letter or a non-numeric spot.
IllFormed(s) ==
    \/ s = <<>>
    \/ s[1] \notin {"R", "Y", "G", "B", "W"}
    \/ Len(s) = 1
    \/ \E i \in 2 .. Len(s) : s[i] \notin {"0", "1", "2", "3", "4", "5", "6", "7", "8", "9"}

\* C15: parsing the text of a take (scoring-color row, spot in 2..12) gives a
\* take equal to the encoded one, and parsing a string with an unknown color
\* letter or a non-numeric spot gives ValueError and no other outcome.
C15_TakeRoundTrip ==
    io.pc = "parsed" =>
        /\ io.encoded => io.out.raised = "none" /\ MoveEq(io.out.take, io.take)
        /\ IllFormed(io.text) => io.out.raised = "ValueError"
        /\ io.out.raised \in {"none", "ValueError"}

\* C16: a turn that applies a take whose spot is not valid for its row (not an
\* open spot, the final spot with fewer than 5 marks, or any spot of a locked
\* row) leaves the marks of that row as they were.
C16_InvalidMarkRejected ==
    [][(io.pc = "turns" /\ io'.pc = "applied") =>
          (LET p == io'.player
               r == io'.take.row_id
           IN  ~ValidSpot(cards[p].grid[r], io'.take.spot) =>
                   cards'[p].grid[r].marks = cards[p].grid[r].marks)]_vars

\* The text names a value of the legal-move set: P or p when pass is in it, or
\* the text of one of its takes.
LegalEntry(s, moves) ==
    \E i \in 1 .. Len(moves) :
        \/ moves[i].kind = "None" /\ s \in {<<"p">>, <<"P">>}
        \/ moves[i].kind = "Take" /\ s = TakeStr(moves[i])

\* C17: the interactive player prompts again only after an entry that is
\* ill-formed or names no legal move, so it returns as soon as a legal value is
\* entered; it returns only on a legal entry, and what it returns is an element
\* of the legal-move set it was given.
C17_HumanReturnsLegal ==
    /\ (io.pc = "input" /\ io.entered) => ~LegalEntry(io.s, io.moves)
    /\ io.pc = "returned" =>
          /\ io.entered
          /\ LegalEntry(io.s, io.moves)
          /\ \E i \in 1 .. Len(io.moves) : MoveEq(io.move, io.moves[i])

====
